---- MODULE Spec2Model ----
(***************************************************************************)
(* Model of the raptorCDN codec: src/src/codec/{consts,encoder,decoder}.rs *)
(*                                                                         *)
(* Byte vectors are kept symbolically, as sequences of runs: a run is      *)
(* either a slice of the payload handed to the encoder or a stretch of     *)
(* zero padding.  Two vectors in normal form are equal exactly when they   *)
(* are equal for every payload content, so slicing, padding, truncating    *)
(* and concatenating are modelled by what they do to the bytes while the   *)
(* sizes keep the values the program uses (packets of 512 bytes and more). *)
(***************************************************************************)
EXTENDS Integers, Sequences, FiniteSets, TLC

\* ------------------------------------------------------------ constants
ALIGNMENT == 8
MIN_PACKET_SIZE == 512
RAPTORQ_ENCODING_SYMBOL_ID_MAX == 16777216
\* The u16 cap on the symbols of a block.  consts.rs does not set it; the
\* encoder compares it with a u16 and the specification calls it a tunable
\* that is small in test builds.
MAX_SYMBOLS_IN_BLOCK == 3
\* number of values of a u16 (num_symbols, packet_size)
U16 == 65536

\* ------------------------------------------------------------ bounds
\* calls of RaptorQEncoder::generate_encoded_blocks in one behaviour
MaxGenerations == 2
\* calls of BlockEncoder::generate_encoded_blocks on one BlockEncoder
MaxStreams == 3
\* calls of BlockDecoder::decode_blocks in one behaviour
MaxBlockDecodes == 2
\* calls of save_encoding_plans and load_encoding_plans in one behaviour
MaxFileOps == 3

\* ------------------------------------------------------------ byte vectors
Run(src, off, len) == [src |-> src, off |-> off, len |-> len]
PayloadBytes(n) == IF n = 0 THEN <<>> ELSE <<Run("payload", 0, n)>>
Zeros(n) == IF n = 0 THEN <<>> ELSE <<Run("zero", 0, n)>>

Mergeable(a, b) ==
    /\ a.src = b.src
    /\ (a.src = "payload" => a.off + a.len = b.off)

RECURSIVE Norm(_)
Norm(v) ==
    IF v = <<>> THEN <<>>
    ELSE IF Head(v).len = 0 THEN Norm(Tail(v))
    ELSE LET r == Norm(Tail(v)) IN
         IF r # <<>> /\ Mergeable(Head(v), Head(r))
         THEN <<Run(Head(v).src, Head(v).off, Head(v).len + Head(r).len)>> \o Tail(r)
         ELSE <<Head(v)>> \o r

RECURSIVE VLen(_)
VLen(v) == IF v = <<>> THEN 0 ELSE Head(v).len + VLen(Tail(v))

\* the first n bytes of v (all of v when it is shorter): Vec::truncate
RECURSIVE Truncate(_, _)
Truncate(v, n) ==
    IF v = <<>> \/ n <= 0 THEN <<>>
    ELSE IF Head(v).len <= n
         THEN Norm(<<Head(v)>> \o Truncate(Tail(v), n - Head(v).len))
         ELSE <<Run(Head(v).src, Head(v).off, n)>>

\* v without its first n bytes
RECURSIVE DropBytes(_, _)
DropBytes(v, n) ==
    IF v = <<>> THEN <<>>
    ELSE IF n <= 0 THEN v
    ELSE IF Head(v).len <= n THEN DropBytes(Tail(v), n - Head(v).len)
    ELSE <<Run(Head(v).src,
               IF Head(v).src = "payload" THEN Head(v).off + n ELSE 0,
               Head(v).len - n)>> \o Tail(v)

\* bytes [from, to) of v
Slice(v, from, to) == Truncate(DropBytes(v, from), to - from)

\* Vec::resize(len + extra, 0)
PadZeros(v, extra) == Norm(v \o Zeros(extra))

\* iterator flatten over a sequence of byte vectors
RECURSIVE Flatten(_)
Flatten(vs) == IF vs = <<>> THEN <<>> ELSE Norm(Head(vs) \o Flatten(Tail(vs)))

Min(a, b) == IF a < b THEN a ELSE b

\* chunks that end with an empty chunk when the length is a multiple of n
Chunks_TrailingEmpty(v, n) ==
    LET total == VLen(v)
        count == IF total = 0 THEN 0 ELSE total \div n + 1
    IN [i \in 1..count |-> Slice(v, (i - 1) * n, Min(i * n, total))]

\* slice::chunks(n) for n > 0: consecutive slices of n bytes, the last one shorter
Chunks(v, n) ==
    LET total == VLen(v)
        count == (total + n - 1) \div n
    IN [i \in 1..count |-> Slice(v, (i - 1) * n, Min(i * n, total))]

\* ------------------------------------------------------------ results
Ok(v) == [ok |-> TRUE, val |-> v]
Err(e) == [ok |-> FALSE, err |-> e]
\* RaptorQDecoderError: three variants, none of which carries a field
BadBlockId == [kind |-> "BadBlockId"]
RaptorQDecodeFailed == [kind |-> "RaptorQDecodeFailed"]
BadBlockInfo == [kind |-> "BadBlockInfo"]
\* the two anyhow errors of BlockEncoder::new
BadPacketSize == [kind |-> "bad packet size"]
DataLengthTooLarge == [kind |-> "data length too large"]
\* a call that never returns: the thread panics
Panic == [ok |-> FALSE, panic |-> TRUE]
Returned(r) == "panic" \notin DOMAIN r
IsErr(r) == Returned(r) /\ ~r.ok
IsOk(r) == Returned(r) /\ r.ok

\* ------------------------------------------------------------ the FEC primitive
\* SourceBlockEncodingPlan::generate(n)
GeneratePlan(n) == [source_symbol_count |-> n]

\* ObjectTransmissionInformation::new(len, symbol_size, 1, 1, alignment)
ObjectTransmissionInformation(len, symbol_size, al) ==
    [transfer_length |-> len, symbol_size |-> symbol_size,
     source_blocks |-> 1, sub_blocks |-> 1, alignment |-> al]

\* SourceBlockEncoder::repair_packets(start, count): one packet for each of the
\* identifiers start .. start + count - 1, in that order, of the block `data`
RepairPackets(data, start, count) ==
    [i \in 1..count |-> [esi |-> start + i - 1, src |-> data]]

\* source symbols of a block of block_length bytes: SourceBlockDecoder::new2
SourceSymbols(config, block_length) ==
    (block_length + config.symbol_size - 1) \div config.symbol_size

\* SourceBlockDecoder::decode: the block, once the packets hold as many distinct
\* repair symbols of one block as the block has source symbols; None before
None == [some |-> FALSE]
Some(v) == [some |-> TRUE, val |-> v]
Reconstruct(config, block_length, packets) ==
    LET ids == {packets[i].esi : i \in DOMAIN packets}
        srcs == {packets[i].src : i \in DOMAIN packets}
    IN IF /\ Cardinality(srcs) = 1
          /\ Cardinality(ids) >= SourceSymbols(config, block_length)
       THEN Some(CHOOSE d \in srcs : TRUE)
       ELSE None

\* ------------------------------------------------------------ BlockEncoder
NoCache == [present |-> FALSE]
SomeCache(m) == [present |-> TRUE, map |-> m]

PlanFor(num_symbols, encoding_plan_cache) ==
    IF encoding_plan_cache.present
    THEN IF num_symbols \in DOMAIN encoding_plan_cache.map
         THEN encoding_plan_cache.map[num_symbols]
         ELSE GeneratePlan(num_symbols)
    ELSE GeneratePlan(num_symbols)

ValidPacketSize(packet_size) ==
    ~(packet_size % ALIGNMENT # 0 \/ packet_size < MIN_PACKET_SIZE)

\* padding that adds a packet of zeros to data that already is whole packets
Padded_ExtraPacket(data, packet_size) ==
    PadZeros(data, packet_size - (VLen(data) % packet_size))

\* data.resize(..., 0) up to the next multiple of packet_size
Padded(data, packet_size) ==
    IF VLen(data) % packet_size > 0
    THEN PadZeros(data, packet_size - (VLen(data) % packet_size))
    ELSE data

\* (data.len() / packet_size as usize) as u16
NumSymbolsU16(len, packet_size) == (len \div packet_size) % U16

BlockEncoderNew(block_id, packet_size, data, encoding_plan_cache) ==
    IF ~ValidPacketSize(packet_size) THEN Err(BadPacketSize)
    ELSE LET payload_size == VLen(data)
             padded == Padded(data, packet_size)
             num_symbols == NumSymbolsU16(VLen(padded), packet_size)
         IN IF num_symbols > MAX_SYMBOLS_IN_BLOCK THEN Err(DataLengthTooLarge)
            ELSE Ok([config |-> ObjectTransmissionInformation(VLen(padded), packet_size, ALIGNMENT),
                     data |-> padded,
                     payload_size |-> payload_size,
                     packet_size |-> packet_size,
                     block_id |-> block_id,
                     encoding_plan |-> PlanFor(num_symbols, encoding_plan_cache)])

Reverse(s) == [i \in 1..Len(s) |-> s[Len(s) + 1 - i]]

\* add_packets pops the packets off the end of the vector
AddPackets(blocks, packets, block_id) ==
    blocks \o [i \in 1..Len(packets) |->
                  [block_id |-> block_id, data |-> Reverse(packets)[i]]]

\* encode_data without the second request that wraps the identifier space
EncodeData_NoWrap(config, plan, data, packet_size, block_id, start_index) ==
    LET packets_to_send == VLen(data) \div packet_size
        packets_created == Min(RAPTORQ_ENCODING_SYMBOL_ID_MAX - start_index, packets_to_send)
    IN AddPackets(<<>>, RepairPackets(data, start_index, packets_created), block_id)

\* encode_data that asks for all packets in one request
EncodeData_NoSplit(config, plan, data, packet_size, block_id, start_index) ==
    AddPackets(<<>>, RepairPackets(data, start_index, VLen(data) \div packet_size), block_id)

\* the repair_packets requests of encode_data, in the order it makes them
RepairRequests(data, packet_size, start_index) ==
    LET packets_to_send == VLen(data) \div packet_size
        packets_created == Min(RAPTORQ_ENCODING_SYMBOL_ID_MAX - start_index, packets_to_send)
    IN <<[start |-> start_index, count |-> packets_created]>>
       \o (IF packets_created < packets_to_send
           THEN <<[start |-> 0, count |-> packets_to_send - packets_created]>>
           ELSE <<>>)

\* encode_data with the outcome start_index of thread_rng().gen_range
EncodeData(config, plan, data, packet_size, block_id, start_index) ==
    LET packets_to_send == VLen(data) \div packet_size
        packets_created == Min(RAPTORQ_ENCODING_SYMBOL_ID_MAX - start_index, packets_to_send)
        first == AddPackets(<<>>, RepairPackets(data, start_index, packets_created), block_id)
    IN IF packets_created < packets_to_send
       THEN AddPackets(first, RepairPackets(data, 0, packets_to_send - packets_created), block_id)
       ELSE first

BlockGenerateEncodedBlocks(self, start_index) ==
    EncodeData(self.config, self.encoding_plan, self.data, self.packet_size,
               self.block_id, start_index)

GetBlockInfo(self) ==
    [payload_size |-> self.payload_size,
     padded_size |-> VLen(self.data),
     config |-> self.config,
     block_id |-> self.block_id]

\* ------------------------------------------------------------ RaptorQEncoder
\* the first error of a sequence of results, or the sequence of their values
CollectResults(rs) ==
    IF \E i \in DOMAIN rs : ~rs[i].ok
    THEN Err(rs[CHOOSE i \in DOMAIN rs : ~rs[i].ok /\ \A j \in 1..(i - 1) : rs[j].ok].err)
    ELSE Ok([i \in DOMAIN rs |-> rs[i].val])

\* RaptorQEncoder::new that never writes to the cache
UpdatedCache_NoInsert(encoding_plan_cache, block_encoders) == encoding_plan_cache

\* the cache after lines 115-132: the plans of the blocks whose symbol count
\* had no entry are inserted in block order
UpdatedCache(encoding_plan_cache, block_encoders) ==
    IF ~encoding_plan_cache.present THEN encoding_plan_cache
    ELSE LET old == encoding_plan_cache.map
             Key(e) == NumSymbolsU16(VLen(e.data), e.packet_size)
             uncached == {i \in DOMAIN block_encoders : Key(block_encoders[i]) \notin DOMAIN old}
             keys == {Key(block_encoders[i]) : i \in uncached}
             Last(k) == CHOOSE i \in uncached :
                           /\ Key(block_encoders[i]) = k
                           /\ \A j \in uncached : Key(block_encoders[j]) = k => j <= i
         IN SomeCache([k \in DOMAIN old \cup keys |->
                          IF k \in DOMAIN old THEN old[k]
                          ELSE block_encoders[Last(k)].encoding_plan])

\* RaptorQEncoder::new: the pair of its result and of the cache it leaves
RaptorQEncoderNew(packet_size, data, encoding_plan_cache) ==
    LET block_size == MAX_SYMBOLS_IN_BLOCK * packet_size
    IN IF block_size = 0
       THEN [res |-> Panic, cache |-> encoding_plan_cache]
       ELSE LET data_chunks == Chunks(data, block_size)
                results == [i \in DOMAIN data_chunks |->
                               BlockEncoderNew(i - 1, packet_size, data_chunks[i],
                                               encoding_plan_cache)]
                collected == CollectResults(results)
            IN IF ~collected.ok
               THEN [res |-> collected, cache |-> encoding_plan_cache]
               ELSE [res |-> Ok([block_encoders |-> collected.val]),
                     cache |-> UpdatedCache(encoding_plan_cache, collected.val)]

\* generate_encoded_blocks that transposes: the first packet of every block in
\* the shuffled order, then the second of every block, and so on
GenerateEncodedBlocks_Transposed(self, starts, perm) ==
    LET encoded_blocks == [i \in DOMAIN self.block_encoders |->
                              BlockGenerateEncodedBlocks(self.block_encoders[i], starts[i])]
        RECURSIVE Row(_, _)
        Row(r, k) == IF k > Len(perm) THEN <<>>
                     ELSE (IF r <= Len(encoded_blocks[perm[k]])
                           THEN <<encoded_blocks[perm[k]][r]>> ELSE <<>>) \o Row(r, k + 1)
        RECURSIVE Rows(_)
        Rows(r) == IF r > MAX_SYMBOLS_IN_BLOCK THEN <<>> ELSE Row(r, 1) \o Rows(r + 1)
    IN Rows(1)

\* generate_encoded_blocks with the outcomes of the random choices: the start
\* identifier of each block and the order `perm` the shuffle leaves
GenerateEncodedBlocks(self, starts, perm) ==
    LET encoded_blocks == [i \in DOMAIN self.block_encoders |->
                              BlockGenerateEncodedBlocks(self.block_encoders[i], starts[i])]
        RECURSIVE Cat(_)
        Cat(k) == IF k > Len(perm) THEN <<>> ELSE encoded_blocks[perm[k]] \o Cat(k + 1)
    IN Cat(1)

GetBlockInfoVec(self) ==
    [i \in DOMAIN self.block_encoders |-> GetBlockInfo(self.block_encoders[i])]

\* ------------------------------------------------------------ BlockDecoder
BlockDecoderNew(block_info) == Ok([block_info |-> block_info])

\* extract_packet without the block id check
ExtractPacket_NoCheck(block, block_id) == Ok(block.data)

ExtractPacket(block, block_id) ==
    IF block.block_id # block_id THEN Err(BadBlockId) ELSE Ok(block.data)

ExtractPackets(blocks, block_id) ==
    CollectResults([i \in DOMAIN blocks |-> ExtractPacket(blocks[i], block_id)])

\* decode_data that returns the padded block
DecodeData_NoTruncate(block_info, blocks) ==
    LET packets == CollectResults([i \in DOMAIN blocks |->
                       IF blocks[i].block_id # block_info.block_id
                       THEN Err(BadBlockId) ELSE Ok(blocks[i].data)])
    IN IF ~packets.ok THEN Err(packets.err)
       ELSE LET decoded == Reconstruct(block_info.config, block_info.padded_size, packets.val)
            IN IF ~decoded.some THEN Err(RaptorQDecodeFailed)
               ELSE IF VLen(decoded.val) # block_info.padded_size THEN Panic
               ELSE Ok(decoded.val)

DecodeData(block_info, blocks) ==
    LET packets == ExtractPackets(blocks, block_info.block_id)
    IN IF ~packets.ok THEN Err(packets.err)
       ELSE LET decoded == Reconstruct(block_info.config, block_info.padded_size, packets.val)
            IN IF ~decoded.some THEN Err(RaptorQDecodeFailed)
               ELSE IF VLen(decoded.val) # block_info.padded_size THEN Panic
               ELSE Ok(Truncate(decoded.val, block_info.payload_size))

BlockDecodeBlocks(self, blocks) == DecodeData(self.block_info, blocks)

\* ------------------------------------------------------------ RaptorQDecoder
\* RaptorQDecoder::new that only checks that every block id is below the length
RaptorQDecoderNew_RangeOnly(block_info_vec) ==
    IF \E i \in DOMAIN block_info_vec : block_info_vec[i].block_id >= Len(block_info_vec)
    THEN Err(BadBlockInfo)
    ELSE Ok([block_decoder_data |->
                [i \in DOMAIN block_info_vec |->
                    [decoder |-> [block_info |-> block_info_vec[i]], blocks |-> <<>>]]])

RaptorQDecoderNew(block_info_vec) ==
    LET block_ids == [i \in DOMAIN block_info_vec |-> block_info_vec[i].block_id]
    IN IF block_ids # [i \in 1..Len(block_info_vec) |-> i - 1]
       THEN Err(BadBlockInfo)
       ELSE LET rs == CollectResults([i \in DOMAIN block_info_vec |->
                                         BlockDecoderNew(block_info_vec[i])])
            IN IF ~rs.ok THEN rs
               ELSE Ok([block_decoder_data |->
                           [i \in DOMAIN rs.val |-> [decoder |-> rs.val[i], blocks |-> <<>>]]])

\* consume_block that counts every packet and buffers no packet twice
ConsumeBlock_NoDuplicates(self, block) ==
    IF block.block_id < Len(self.block_decoder_data)
    THEN [self |-> [block_decoder_data |->
                       [self.block_decoder_data EXCEPT ![block.block_id + 1].blocks =
                            IF \E i \in DOMAIN @ : @[i] = block THEN @ ELSE Append(@, block)]],
          ret |-> 1]
    ELSE [self |-> self, ret |-> 0]

\* consume_block that puts a packet of a block id past the end into the last buffer
ConsumeBlock_Clamped(self, block) ==
    LET n == Len(self.block_decoder_data)
    IN IF n > 0
       THEN [self |-> [block_decoder_data |->
                          [self.block_decoder_data EXCEPT ![Min(block.block_id + 1, n)].blocks =
                               Append(@, block)]],
             ret |-> IF block.block_id < n THEN 1 ELSE 0]
       ELSE [self |-> self, ret |-> 0]

\* consume_block: the pair of the decoder it leaves and of the count it returns
ConsumeBlock(self, block) ==
    IF block.block_id < Len(self.block_decoder_data)
    THEN [self |-> [block_decoder_data |->
                       [self.block_decoder_data EXCEPT ![block.block_id + 1].blocks =
                            Append(@, block)]],
          ret |-> 1]
    ELSE [self |-> self, ret |-> 0]

RECURSIVE ConsumeBlocks(_, _)
ConsumeBlocks(self, blocks) ==
    IF blocks = <<>> THEN [self |-> self, ret |-> 0]
    ELSE LET one == ConsumeBlock(self, Head(blocks))
             rest == ConsumeBlocks(one.self, Tail(blocks))
         IN [self |-> rest.self, ret |-> one.ret + rest.ret]

\* decode_blocks that hands the buffers over to the block decoders
DecodeBlocks_Drain(self) ==
    LET rs == [i \in DOMAIN self.block_decoder_data |->
                  DecodeData(self.block_decoder_data[i].decoder.block_info,
                             self.block_decoder_data[i].blocks)]
    IN [self |-> [block_decoder_data |->
                     [i \in DOMAIN self.block_decoder_data |->
                         [self.block_decoder_data[i] EXCEPT !.blocks = <<>>]]],
        ret |-> IF \E i \in DOMAIN rs : ~Returned(rs[i]) THEN Panic
                ELSE LET c == CollectResults(rs)
                     IN IF c.ok THEN Ok(Flatten(c.val)) ELSE c]

\* decode_blocks: the pair of the decoder it leaves and of its result; the
\* blocks are decoded in order and the first one that fails ends the call
DecodeBlocks(self) ==
    LET rs == [i \in DOMAIN self.block_decoder_data |->
                  BlockDecodeBlocks(self.block_decoder_data[i].decoder,
                                    self.block_decoder_data[i].blocks)]
        failing == {i \in DOMAIN rs : ~rs[i].ok}
        first == CHOOSE i \in failing : \A j \in failing : i <= j
    IN [self |-> self,
        ret |-> IF failing = {} THEN Ok(Flatten([i \in DOMAIN rs |-> rs[i].val]))
                ELSE IF ~Returned(rs[first]) THEN Panic
                ELSE Err(rs[first].err)]

\* ------------------------------------------------------------ plan cache files
\* a file name is a sequence of pieces, every "." a piece of its own
Digit(d) == <<"0", "1", "2", "3", "4", "5", "6", "7", "8", "9">>[d + 1]
RECURSIVE Decimal(_)
Decimal(n) == IF n < 10 THEN <<Digit(n)>> ELSE Append(Decimal(n \div 10), Digit(n % 10))

\* a file name that does not tell the count
PlanFileName_NoCount(source_symbol_count) == <<"plan_", ".", "json-zip">>

\* format!("plan_{}.json-zip", source_symbol_count)
PlanFileName(source_symbol_count) ==
    <<"plan_">> \o Decimal(source_symbol_count) \o <<".", "json-zip">>

\* Path::extension: what follows the last "." of the file name, a "." that
\* starts the name not counted
Extension(name) ==
    LET dots == {i \in 2..Len(name) : name[i] = "."}
        last == CHOOSE i \in dots : \A j \in dots : j <= i
    IN IF dots = {} THEN None ELSE Some(SubSeq(name, last + 1, Len(name)))

\* directory entries
RegularFile(content) == [is_file |-> TRUE, content |-> content]
Directory == [is_file |-> FALSE]

CachedEncodingPlan(source_symbol_count, plan) ==
    [source_symbol_count |-> source_symbol_count, plan |-> plan]

\* serde_json::to_string and from_str::<CachedEncodingPlan>: an object of the
\* two fields; any other text, an object without one of them, or a count that
\* is no u16 does not parse
ToJson(cached_plan) ==
    [source_symbol_count |-> cached_plan.source_symbol_count, plan |-> cached_plan.plan]
JsonError == [kind |-> "json"]
FromJson(text) ==
    IF /\ DOMAIN text = {"source_symbol_count", "plan"}
       /\ text.source_symbol_count \in 0..(U16 - 1)
    THEN Ok(CachedEncodingPlan(text.source_symbol_count, text.plan))
    ELSE Err(JsonError)

\* ZlibEncoder and ZlibDecoder: bytes that are no zlib stream do not decode
ZlibEncode(text) == [zlib |-> text]
ZlibError == [kind |-> "zlib"]
ZlibDecode(bytes) ==
    IF DOMAIN bytes = {"zlib"} THEN Ok(bytes.zlib) ELSE Err(ZlibError)

IoError == [kind |-> "io"]

\* load_cached_encoding_plan(path), path an entry of the directory
LoadCachedEncodingPlan(entry) ==
    IF ~entry.is_file THEN Err(IoError)
    ELSE LET json_data == ZlibDecode(entry.content)
         IN IF ~json_data.ok THEN json_data ELSE FromJson(json_data.val)

\* load_cached_encoding_plans(dir): entries is the order read_dir lists the names in
LoadCachedEncodingPlans(directory, entries) ==
    LET IsPlanFile(name) ==
            directory[name].is_file /\ Extension(name) = Some(<<"json-zip">>)
        plan_files == SelectSeq(entries, IsPlanFile)
    IN CollectResults([i \in DOMAIN plan_files |->
                          LoadCachedEncodingPlan(directory[plan_files[i]])])

\* load_encoding_plans(dir): a later insert of a count replaces an earlier one
LoadEncodingPlans(directory, entries) ==
    LET loaded == LoadCachedEncodingPlans(directory, entries)
    IN IF ~loaded.ok THEN loaded
       ELSE LET cached_plans == loaded.val
                counts == {cached_plans[i].source_symbol_count : i \in DOMAIN cached_plans}
                Last(k) == CHOOSE i \in DOMAIN cached_plans :
                              /\ cached_plans[i].source_symbol_count = k
                              /\ \A j \in DOMAIN cached_plans :
                                    cached_plans[j].source_symbol_count = k => j <= i
            IN Ok([k \in counts |-> cached_plans[Last(k)].plan])

\* save_encoding_plan(dir, cached_plan): File::create replaces a file of that
\* name and fails on a directory of that name
SaveEncodingPlan(directory, cached_plan) ==
    LET file_path == PlanFileName(cached_plan.source_symbol_count)
    IN IF file_path \in DOMAIN directory /\ ~directory[file_path].is_file
       THEN [dir |-> directory, ret |-> Err(IoError)]
       ELSE [dir |-> [name \in DOMAIN directory \cup {file_path} |->
                         IF name = file_path
                         THEN RegularFile(ZlibEncode(ToJson(cached_plan)))
                         ELSE directory[name]],
             ret |-> Ok(<<>>)]

\* save_encoding_plans(dir, plans): keys is the order the map iterates in; the
\* first file that cannot be written ends the call
RECURSIVE SaveEncodingPlans(_, _, _)
SaveEncodingPlans(directory, plans, keys) ==
    IF keys = <<>> THEN [dir |-> directory, ret |-> Ok(<<>>)]
    ELSE LET one == SaveEncodingPlan(directory,
                                     CachedEncodingPlan(Head(keys), plans[Head(keys)]))
         IN IF ~one.ret.ok THEN one
            ELSE SaveEncodingPlans(one.dir, plans, Tail(keys))

\* ------------------------------------------------------------ state
VARIABLES
    payload_len,  \* length of the payload handed to RaptorQEncoder::new
    enc,          \* the call of RaptorQEncoder::new: its packet_size and its result
    cache,        \* the encoding plan cache the caller holds
    gens,         \* generate_encoded_blocks calls so far
    wire,         \* the packets of the last generate_encoded_blocks call
    cursor,       \* how many packets of wire the receiver has handed to consume_blocks
    dec,          \* the result of RaptorQDecoder::new
    last_op,      \* the last call on the pipeline, its arguments and what it returned
    decode_failed,\* history: a decode_blocks call of dec returned RaptorQDecodeFailed
    benc,         \* a stand-alone BlockEncoder::new call: its arguments and result
    bstreams,     \* the packet streams generated from benc, one per call
    bstarts,      \* the start identifier gen_range drew in each of those calls
    bdec,         \* a stand-alone BlockDecoder
    bop,          \* the last BlockDecoder::decode_blocks call and its history
    dir,          \* the plan cache directory: its entries by file name
    fop           \* the last save_encoding_plans or load_encoding_plans call

pvars == <<payload_len, enc, cache, gens, wire, cursor, dec, last_op, decode_failed>>
bvars == <<benc, bstreams, bstarts, bdec, bop>>
cvars == <<dir, fop>>
vars == <<payload_len, enc, cache, gens, wire, cursor, dec, last_op, decode_failed,
          benc, bstreams, bstarts, bdec, bop, dir, fop>>

NotYet == [st |-> "none"]

\* ------------------------------------------------------------ inputs
PacketSizes == {0, 8, 512, 516, 520}
\* payload lengths: none, less than a packet, whole packets and not, one full
\* block, and a second block of one packet or less
PayloadLens ==
    {0, 1, 512, 513, 520,
     MAX_SYMBOLS_IN_BLOCK * 512, MAX_SYMBOLS_IN_BLOCK * 512 + 1,
     MAX_SYMBOLS_IN_BLOCK * 520, MAX_SYMBOLS_IN_BLOCK * 520 + 512}
StartIds == {0, RAPTORQ_ENCODING_SYMBOL_ID_MAX - 1}

\* packets in the buffers of a RaptorQDecoder
RECURSIVE BufferedFrom(_, _)
BufferedFrom(self, i) ==
    IF i > Len(self.block_decoder_data) THEN 0
    ELSE Len(self.block_decoder_data[i].blocks) + BufferedFrom(self, i + 1)
Buffered(self) == BufferedFrom(self, 1)

Orders(n) == {f \in [1..n -> 1..n] : \A i, j \in 1..n : f[i] = f[j] => i = j}

\* no call on the plan cache directory yet
NoFileOp == [n |-> 0, op |-> "none", plans |-> <<>>, pristine |-> FALSE]

InitCodec ==
    /\ enc = NotYet
    /\ gens = 0
    /\ wire = <<>>
    /\ cursor = 0
    /\ dec = NotYet
    /\ last_op = [op |-> "none"]
    /\ decode_failed = FALSE
    /\ benc = NotYet
    /\ bstreams = <<>>
    /\ bstarts = <<>>
    /\ bdec = NotYet
    /\ bop = [n |-> 0, bad_before |-> FALSE]

InitRest == InitCodec /\ dir = <<>> /\ fop = NoFileOp

Init == payload_len \in PayloadLens /\ cache = NoCache /\ InitRest

\* ------------------------------------------------------------ pipeline actions
EncoderReady == enc.st = "called" /\ IsOk(enc.res)
DecoderReady == dec.st = "called" /\ IsOk(dec.res)

\* RaptorQEncoder::new(packet_size, &payload, cache)
NewEncoder ==
    /\ enc.st = "none"
    /\ \E ps \in PacketSizes :
          LET r == RaptorQEncoderNew(ps, PayloadBytes(payload_len), cache)
          IN /\ enc' = [st |-> "called", packet_size |-> ps, res |-> r.res]
             /\ cache' = r.cache
             /\ last_op' = [op |-> "new_encoder"]
    /\ UNCHANGED <<payload_len, gens, wire, cursor, dec, decode_failed>>
    /\ UNCHANGED bvars
    /\ UNCHANGED cvars

\* RaptorQDecoder::new(block_info_vec), the vector made of block infos of the encoder
NewDecoder ==
    /\ EncoderReady
    /\ dec.st = "none"
    /\ LET infos == GetBlockInfoVec(enc.res.val)
       IN \E m \in 0..Len(infos) : \E f \in [1..m -> 1..Len(infos)] :
             LET block_info_vec == [i \in 1..m |-> infos[f[i]]]
             IN /\ dec' = [st |-> "called", res |-> RaptorQDecoderNew(block_info_vec)]
                /\ last_op' = [op |-> "new_decoder", block_info_vec |-> block_info_vec]
    /\ UNCHANGED <<payload_len, enc, cache, gens, wire, cursor, decode_failed>>
    /\ UNCHANGED bvars
    /\ UNCHANGED cvars

\* RaptorQEncoder::generate_encoded_blocks()
Generate ==
    /\ EncoderReady
    /\ gens < MaxGenerations
    /\ LET n == Len(enc.res.val.block_encoders)
       IN \E starts \in [1..n -> StartIds] : \E perm \in Orders(n) :
             /\ wire' = GenerateEncodedBlocks(enc.res.val, starts, perm)
             /\ last_op' = [op |-> "generate", starts |-> starts, perm |-> perm]
    /\ cursor' = 0
    /\ gens' = gens + 1
    /\ UNCHANGED <<payload_len, enc, cache, dec, decode_failed>>
    /\ UNCHANGED bvars
    /\ UNCHANGED cvars

\* RaptorQDecoder::consume_blocks(blocks), blocks the next k packets off the wire
Consume ==
    /\ DecoderReady
    /\ \E k \in 1..(Len(wire) - cursor) :
          LET blocks == SubSeq(wire, cursor + 1, cursor + k)
              r == ConsumeBlocks(dec.res.val, blocks)
          IN /\ dec' = [dec EXCEPT !.res = Ok(r.self)]
             /\ last_op' = [op |-> "consume", blocks |-> blocks, ret |-> r.ret]
             /\ cursor' = cursor + k
    /\ UNCHANGED <<payload_len, enc, cache, gens, wire, decode_failed>>
    /\ UNCHANGED bvars
    /\ UNCHANGED cvars

\* RaptorQDecoder::decode_blocks()
Decode ==
    /\ DecoderReady
    /\ LET r == DecodeBlocks(dec.res.val)
       IN /\ dec' = [dec EXCEPT !.res = Ok(r.self)]
          /\ last_op' = [op |-> "decode", ret |-> r.ret]
          /\ decode_failed' = (decode_failed \/ r.ret = Err(RaptorQDecodeFailed))
    /\ UNCHANGED <<payload_len, enc, cache, gens, wire, cursor>>
    /\ UNCHANGED bvars
    /\ UNCHANGED cvars

Next == NewEncoder \/ NewDecoder \/ Generate \/ Consume \/ Decode

Spec == Init /\ [][Next]_vars

\* ------------------------------------------------------------ block-level inputs
BlockIds == {0, 1}
BlockPacketSizes == {0, 8, 504, 512, 513, 520}
\* chunk lengths around every boundary of BlockEncoder::new: the packet, the
\* cap on the symbols of a block, and the 16 bits of num_symbols
BlockLens(ps) ==
    {0, 1, ps, ps + 1,
     MAX_SYMBOLS_IN_BLOCK * ps, MAX_SYMBOLS_IN_BLOCK * ps + 1,
     (U16 - 1) * ps, U16 * ps, U16 * ps + 1,
     (U16 + MAX_SYMBOLS_IN_BLOCK) * ps, (U16 + MAX_SYMBOLS_IN_BLOCK) * ps + 1}
BlockStartIds == {0, 1, RAPTORQ_ENCODING_SYMBOL_ID_MAX - 1}
\* caches a caller may hand over: none, an empty one, one that holds the plan of
\* one-symbol blocks, and one whose file stated another count than its plan has
Caches ==
    {NoCache, SomeCache(<<>>), SomeCache(1 :> GeneratePlan(1)),
     SomeCache((1 :> GeneratePlan(2)) @@ (MAX_SYMBOLS_IN_BLOCK + 1 :> GeneratePlan(1)))}

BlockEncoderReady == benc.st = "called" /\ IsOk(benc.res)
BlockDecoderReady == bdec.st = "called" /\ IsOk(bdec.res)

\* symbols of the data a BlockEncoder holds
Symbols(self) == VLen(self.data) \div self.packet_size

\* ------------------------------------------------------------ block-level actions
\* BlockEncoder::new(block_id, packet_size, data, cache)
BlockNew ==
    /\ benc.st = "none"
    /\ \E id \in BlockIds : \E ps \in BlockPacketSizes : \E len \in BlockLens(ps) :
          benc' = [st |-> "called", block_id |-> id, packet_size |-> ps, len |-> len,
                   res |-> BlockEncoderNew(id, ps, PayloadBytes(len), cache)]
    /\ UNCHANGED <<bstreams, bstarts, bdec, bop>>
    /\ UNCHANGED pvars
    /\ UNCHANGED cvars

\* BlockEncoder::generate_encoded_blocks(), for a block the FEC library takes;
\* the receiver collects the streams before it starts to decode
BlockGenerate ==
    /\ BlockEncoderReady
    /\ bop.n = 0
    /\ Symbols(benc.res.val) \in 1..MAX_SYMBOLS_IN_BLOCK
    /\ Len(bstreams) < MaxStreams
    /\ \E start \in BlockStartIds :
          /\ bstreams' = Append(bstreams, BlockGenerateEncodedBlocks(benc.res.val, start))
          /\ bstarts' = Append(bstarts, start)
    /\ UNCHANGED <<benc, bdec, bop>>
    /\ UNCHANGED pvars
    /\ UNCHANGED cvars

\* BlockDecoder::new(encoder.get_block_info())
BlockDecNew ==
    /\ BlockEncoderReady
    /\ Symbols(benc.res.val) \in 1..MAX_SYMBOLS_IN_BLOCK
    /\ bdec.st = "none"
    /\ bdec' = [st |-> "called", res |-> BlockDecoderNew(GetBlockInfo(benc.res.val))]
    /\ UNCHANGED <<benc, bstreams, bstarts, bop>>
    /\ UNCHANGED pvars
    /\ UNCHANGED cvars

\* Vec::truncate(n) on a vector of packets
TruncatePackets(blocks, n) == SubSeq(blocks, 1, Min(n, Len(blocks)))

\* the streams, each cut to its first n packets, appended to one another
RECURSIVE Recombine(_, _)
Recombine(streams, n) ==
    IF streams = <<>> THEN <<>>
    ELSE TruncatePackets(Head(streams), n) \o Recombine(Tail(streams), n)

\* a packet of the block another BlockEncoder encodes
ForeignPacket(self) ==
    LET other == BlockEncoderNew(self.block_id + 1, self.packet_size,
                                 PayloadBytes(self.packet_size), NoCache).val
    IN BlockGenerateEncodedBlocks(other, 0)[1]

\* BlockDecoder::decode_blocks(blocks): blocks are the first `keep` packets of
\* every stream, with or without a packet of another block before or after
BlockDecode ==
    /\ BlockDecoderReady
    /\ bop.n < MaxBlockDecodes
    /\ \E keep \in 0..Symbols(benc.res.val) : \E foreign \in {"none", "first", "last"} :
          LET own == Recombine(bstreams, keep)
              blocks == CASE foreign = "none" -> own
                          [] foreign = "first" -> <<ForeignPacket(benc.res.val)>> \o own
                          [] foreign = "last" -> Append(own, ForeignPacket(benc.res.val))
              ret == BlockDecodeBlocks(bdec.res.val, blocks)
          IN bop' = [n |-> bop.n + 1, keep |-> keep, streams |-> Len(bstreams),
                     foreign |-> foreign,
                     blocks |-> blocks, ret |-> ret,
                     bad_before |-> (bop.bad_before \/
                                     (bop.n > 0 /\ bop.ret = Err(BadBlockId)))]
    /\ UNCHANGED <<benc, bstreams, bstarts, bdec>>
    /\ UNCHANGED pvars
    /\ UNCHANGED cvars

\* the two constructors on their own
InitNew ==
    /\ payload_len \in {0, 1, 513, MAX_SYMBOLS_IN_BLOCK * 520 + 512}
    /\ cache \in Caches
    /\ InitRest

NextNew == NewEncoder \/ BlockNew

SpecNew == InitNew /\ [][NextNew]_vars

\* decoders built from the block infos of payloads of three and four blocks
InitDec ==
    /\ payload_len \in {2 * MAX_SYMBOLS_IN_BLOCK * 520, 2 * MAX_SYMBOLS_IN_BLOCK * 520 + 1,
                        3 * MAX_SYMBOLS_IN_BLOCK * 520 + 1}
    /\ cache = NoCache
    /\ InitRest

NextDec == NewEncoder \/ NewDecoder

SpecDec == InitDec /\ [][NextDec]_vars

\* one block, encoded into several streams and decoded
InitBlock == payload_len = 0 /\ cache = NoCache /\ InitRest

NextBlock == BlockNew \/ BlockGenerate \/ BlockDecNew \/ BlockDecode

SpecBlock == InitBlock /\ [][NextBlock]_vars

\* ------------------------------------------------------------ plan cache actions
\* symbol counts of the plans that are saved: one digit and five
PlanCounts == {1, U16 - 1}
\* plan maps: any of two plans under any of the counts
PlanMaps ==
    UNION {[counts -> {GeneratePlan(1), GeneratePlan(2)}] : counts \in SUBSET PlanCounts}

Garbage == [raw |-> "garbage"]
StalePlan == RegularFile(ZlibEncode(ToJson(CachedEncodingPlan(1, GeneratePlan(2)))))
\* directories the calls may find: empty; files without the extension, one of
\* them a plan file by content; a dot file and a backup; a directory where a
\* plan file would go; a plan file under another name; a plan file that is no
\* zlib stream; a plan file whose object lacks the plan
CacheDirs ==
    {<<>>,
     (<<"notes", ".", "txt">> :> RegularFile(Garbage)) @@ (<<"plan_", "1">> :> StalePlan),
     (<<".", "json-zip">> :> RegularFile(Garbage))
        @@ (<<"plan_", "1", ".", "json-zip", ".", "bak">> :> StalePlan),
     (PlanFileName(U16 - 1) :> Directory),
     (<<"old", ".", "json-zip">> :> StalePlan),
     (PlanFileName(1) :> RegularFile(Garbage)),
     (<<"bad", ".", "json-zip">> :> RegularFile(ZlibEncode([source_symbol_count |-> 1])))}

\* the sequences that list every element of a set once
RECURSIVE Listings(_)
Listings(S) ==
    IF S = {} THEN {<<>>}
    ELSE UNION {{<<x>> \o rest : rest \in Listings(S \ {x})} : x \in S}

\* no entry of the directory has the extension of the plan files
Pristine(directory) ==
    \A name \in DOMAIN directory : Extension(name) # Some(<<"json-zip">>)

\* save_encoding_plans(dir, &plans)
SavePlans ==
    /\ fop.n < MaxFileOps
    /\ \E plans \in PlanMaps : \E keys \in Listings(DOMAIN plans) :
          LET r == SaveEncodingPlans(dir, plans, keys)
          IN /\ dir' = r.dir
             /\ fop' = [n |-> fop.n + 1, op |-> "save", plans |-> plans, ret |-> r.ret,
                        pristine |-> (Pristine(dir) /\ r.ret.ok)]
    /\ UNCHANGED pvars
    /\ UNCHANGED bvars

\* load_encoding_plans(dir)
LoadPlans ==
    /\ fop.n < MaxFileOps
    /\ \E entries \in Listings(DOMAIN dir) :
          fop' = [n |-> fop.n + 1, op |-> "load", plans |-> fop.plans,
                  ret |-> LoadEncodingPlans(dir, entries), pristine |-> fop.pristine]
    /\ UNCHANGED dir
    /\ UNCHANGED pvars
    /\ UNCHANGED bvars

InitCache ==
    /\ payload_len = 0
    /\ cache = NoCache
    /\ InitCodec
    /\ dir \in CacheDirs
    /\ fop = NoFileOp

NextCache == SavePlans \/ LoadPlans

SpecCache == InitCache /\ [][NextCache]_vars

\* ------------------------------------------------------------ properties
\* the block infos a RaptorQDecoder holds, in the order it holds them
DecoderInfos(self) ==
    [i \in DOMAIN self.block_decoder_data |-> self.block_decoder_data[i].decoder.block_info]

\* the decoder was built from get_block_info_vec() of the encoder
FullInfos ==
    /\ EncoderReady
    /\ DecoderReady
    /\ DecoderInfos(dec.res.val) = GetBlockInfoVec(enc.res.val)

\* distinct repair symbol identifiers among packets
DistinctIds(blocks) == Cardinality({blocks[i].data.esi : i \in DOMAIN blocks})

\* source symbols of the block a block info describes
InfoSymbols(info) == info.padded_size \div info.config.symbol_size

\* every buffer holds as many distinct repair symbols as its block has source symbols
Sufficient(self) ==
    \A i \in DOMAIN self.block_decoder_data :
        DistinctIds(self.block_decoder_data[i].blocks)
            >= InfoSymbols(self.block_decoder_data[i].decoder.block_info)

\* C1: a decoder built from get_block_info_vec() that has consumed all packets of
\* one generate_encoded_blocks() call, and no others, decodes to exactly the
\* payload, whatever the payload length and the valid packet size.
C1_RoundTrip ==
    (/\ FullInfos
     /\ gens = 1
     /\ cursor = Len(wire)
     /\ last_op.op = "decode")
    => last_op.ret = Ok(PayloadBytes(payload_len))

\* two blocks, the last one padded, decoded back to the payload
C1_Witness ==
    /\ FullInfos
    /\ gens = 1
    /\ cursor = Len(wire)
    /\ last_op.op = "decode"
    /\ Len(enc.res.val.block_encoders) = 2
    /\ payload_len % enc.packet_size # 0
    /\ last_op.ret = Ok(PayloadBytes(payload_len))

\* the block ids of a block info vector
Ids(block_info_vec) == [i \in DOMAIN block_info_vec |-> block_info_vec[i].block_id]
HasDuplicate(ids) == \E i, j \in DOMAIN ids : i # j /\ ids[i] = ids[j]
HasMissing(ids) == \E k \in 0..(Len(ids) - 1) : \A i \in DOMAIN ids : ids[i] # k

\* C2: RaptorQDecoder::new succeeds on every block info vector whose block ids
\* are a permutation of 0..n-1, and the decoder holds the blocks in ascending
\* block id order.
C2_PermutationAccepted ==
    (/\ last_op.op = "new_decoder"
     /\ ~HasDuplicate(Ids(last_op.block_info_vec))
     /\ ~HasMissing(Ids(last_op.block_info_vec)))
    => /\ IsOk(dec.res)
       /\ \A i \in DOMAIN dec.res.val.block_decoder_data :
             DecoderInfos(dec.res.val)[i].block_id = i - 1

\* C3: RaptorQDecoder::new returns BadBlockInfo, and no decoder, for every block
\* info vector of length n whose block ids hold a duplicate or omit an id of 0..n-1.
C3_BadBlockInfoRejected ==
    (/\ last_op.op = "new_decoder"
     /\ \/ HasDuplicate(Ids(last_op.block_info_vec))
        \/ HasMissing(Ids(last_op.block_info_vec)))
    => dec.res = Err(BadBlockInfo)

\* three infos with all ids in range and one of them twice
C3_Witness ==
    /\ last_op.op = "new_decoder"
    /\ Len(last_op.block_info_vec) = 3
    /\ HasDuplicate(Ids(last_op.block_info_vec))
    /\ \A i \in 1..3 : Ids(last_op.block_info_vec)[i] < 3
    /\ dec.res = Err(BadBlockInfo)

\* the packets of blocks whose block id is id, in order
OfBlock(blocks, id) == LET Mine(b) == b.block_id = id IN SelectSeq(blocks, Mine)

\* C4: consume_blocks appends every packet with block_id < n to the buffer of
\* that block id, in arrival order and duplicates included, changes nothing for
\* the packets with block_id >= n, and returns the number of packets with
\* block_id < n.
C4_ConsumeRoutes ==
    [][cursor' > cursor =>
        LET blocks == SubSeq(wire, cursor + 1, cursor')
            old == dec.res.val.block_decoder_data
            new == dec'.res.val.block_decoder_data
            n == Len(old)
        IN /\ Len(new) = n
           /\ \A i \in 1..n :
                 /\ new[i].decoder = old[i].decoder
                 /\ new[i].blocks = old[i].blocks \o OfBlock(blocks, i - 1)
           /\ last_op'.op = "consume"
           /\ last_op'.blocks = blocks
           /\ last_op'.ret = Cardinality({j \in DOMAIN blocks : blocks[j].block_id < n})]_vars

\* a consume_blocks call that dropped a packet and kept another, on a decoder
\* that buffers the same packet twice
C4_Witness ==
    /\ DecoderReady
    /\ last_op.op = "consume"
    /\ last_op.ret > 0
    /\ last_op.ret < Len(last_op.blocks)
    /\ \E i \in DOMAIN dec.res.val.block_decoder_data :
          LET b == dec.res.val.block_decoder_data[i].blocks
          IN \E j, k \in DOMAIN b : j < k /\ b[j] = b[k]

\* C5: BlockEncoder::new returns an error for every packet_size that is not a
\* multiple of ALIGNMENT or is below MIN_PACKET_SIZE, and so does
\* RaptorQEncoder::new with such a packet_size and a non-empty payload.
C5_InvalidPacketSizeRejected ==
    /\ (/\ benc.st = "called"
        /\ (benc.packet_size % ALIGNMENT # 0 \/ benc.packet_size < MIN_PACKET_SIZE))
       => benc.res = Err(BadPacketSize)
    /\ (/\ enc.st = "called"
        /\ (enc.packet_size % ALIGNMENT # 0 \/ enc.packet_size < MIN_PACKET_SIZE)
        /\ payload_len > 0)
       => enc.res = Err(BadPacketSize)

\* symbols of a chunk of len bytes once padded to whole packets
TrueSymbols(len, packet_size) == (len + packet_size - 1) \div packet_size

\* C6: BlockEncoder::new with a valid packet_size returns the data-too-large
\* error for every chunk of more than MAX_SYMBOLS_IN_BLOCK symbols, also when
\* the symbol count does not fit in 16 bits.
C6_OversizeRejected ==
    (/\ benc.st = "called"
     /\ benc.packet_size % ALIGNMENT = 0
     /\ benc.packet_size >= MIN_PACKET_SIZE
     /\ TrueSymbols(benc.len, benc.packet_size) > MAX_SYMBOLS_IN_BLOCK)
    => benc.res = Err(DataLengthTooLarge)

\* C7: BlockDecoder::decode_blocks fails with BadBlockId whenever a packet has
\* another block_id than the decoder, whatever the other packets; the decoder
\* keeps its block info, and a call with matching packets only returns what a
\* fresh decoder returns: the block data once the packets hold enough distinct
\* symbols, RaptorQDecodeFailed before.
C7_MismatchRejected ==
    bop.n > 0 =>
        LET info == GetBlockInfo(benc.res.val)
            mismatch == \E i \in DOMAIN bop.blocks : bop.blocks[i].block_id # benc.block_id
        IN /\ bdec.res = Ok([block_info |-> info])
           /\ mismatch => bop.ret = Err(BadBlockId)
           /\ (~mismatch /\ DistinctIds(bop.blocks) >= InfoSymbols(info))
                 => bop.ret = Ok(PayloadBytes(benc.len))
           /\ (~mismatch /\ DistinctIds(bop.blocks) < InfoSymbols(info))
                 => bop.ret = Err(RaptorQDecodeFailed)

\* a call that decodes the block after an earlier call failed with BadBlockId
C7_Witness ==
    /\ bop.n = 2
    /\ bop.bad_before
    /\ bop.foreign = "none"
    /\ bop.ret = Ok(PayloadBytes(benc.len))

\* C8: RaptorQDecoder::decode_blocks leaves every buffer as it was, whether it
\* succeeds or fails; it fails with RaptorQDecodeFailed while a block lacks
\* distinct symbols, and returns the full payload once every block has enough.
C8_DecodeKeepsBuffers ==
    [][last_op'.op = "decode" =>
        /\ dec' = dec
        /\ (FullInfos /\ Sufficient(dec.res.val))
              => last_op'.ret = Ok(PayloadBytes(payload_len))
        /\ ~Sufficient(dec.res.val) => last_op'.ret = Err(RaptorQDecodeFailed)]_vars

\* a decode_blocks call that returns the payload after an earlier one failed
C8_Witness ==
    /\ FullInfos
    /\ decode_failed
    /\ payload_len > 0
    /\ last_op.op = "decode"
    /\ last_op.ret = Ok(PayloadBytes(payload_len))

\* three streams of one BlockEncoder, each cut to floor(K/3)+1 packets
ThreePeers ==
    /\ bop.n > 0
    /\ bop.streams = 3
    /\ bop.foreign = "none"
    /\ bop.keep = (Symbols(benc.res.val) \div 3) + 1

FirstFailing(self) ==
    CHOOSE i \in DOMAIN self.block_decoder_data :
        /\ ~BlockDecodeBlocks(self.block_decoder_data[i].decoder,
                              self.block_decoder_data[i].blocks).ok
        /\ \A j \in 1..(i - 1) :
              BlockDecodeBlocks(self.block_decoder_data[j].decoder,
                                self.block_decoder_data[j].blocks).ok

\* C10: the error of a failed decode_blocks names the block_id of the first
\* block that fails.
C10_ErrorNamesBlock ==
    (DecoderReady /\ last_op.op = "decode" /\ IsErr(last_op.ret))
    => /\ "block_id" \in DOMAIN last_op.ret.err
       /\ last_op.ret.err.block_id = FirstFailing(dec.res.val) - 1

\* C11: a successful RaptorQEncoder::new with a cache leaves a cache that holds
\* a plan for the symbol count of every block and every entry it held before,
\* unchanged; a block whose count was cached holds the cached plan, any other
\* block a generated plan, which is the plan inserted under its count.
C11_CacheUpdated ==
    [][(enc.st = "none" /\ enc'.st = "called" /\ cache.present /\ IsOk(enc'.res)) =>
        LET blocks == enc'.res.val.block_encoders
        IN /\ cache'.present
           /\ \A i \in DOMAIN blocks : Symbols(blocks[i]) \in DOMAIN cache'.map
           /\ \A k \in DOMAIN cache.map :
                 k \in DOMAIN cache'.map /\ cache'.map[k] = cache.map[k]
           /\ \A i \in DOMAIN blocks :
                 LET k == Symbols(blocks[i])
                 IN /\ k \in DOMAIN cache.map => blocks[i].encoding_plan = cache.map[k]
                    /\ k \notin DOMAIN cache.map =>
                          /\ blocks[i].encoding_plan = GeneratePlan(k)
                          /\ cache'.map[k] = GeneratePlan(k)]_vars

\* two blocks: the plan of one was cached (under a count its plan does not
\* have) and is the plan the block holds, the plan of the other was inserted
C11_Witness ==
    /\ EncoderReady
    /\ cache.present
    /\ Len(enc.res.val.block_encoders) = 2
    /\ LET blocks == enc.res.val.block_encoders
       IN /\ Symbols(blocks[1]) # Symbols(blocks[2])
          /\ blocks[2].encoding_plan # GeneratePlan(Symbols(blocks[2]))
          /\ cache.map[Symbols(blocks[2])] = blocks[2].encoding_plan
          /\ cache.map[Symbols(blocks[1])] = GeneratePlan(Symbols(blocks[1]))
          /\ MAX_SYMBOLS_IN_BLOCK + 1 \in DOMAIN cache.map

\* the block info of a BlockEncoder built from a chunk of len bytes pads the chunk
\* with fewer than packet_size zero bytes to whole packets
PaddingRight(self, len) ==
    LET info == GetBlockInfo(self)
    IN /\ info.payload_size = len
       /\ info.padded_size >= info.payload_size
       /\ info.padded_size % self.packet_size = 0
       /\ info.padded_size - info.payload_size < self.packet_size
       /\ VLen(self.data) = info.padded_size
       /\ DropBytes(self.data, info.payload_size)
             = Zeros(info.padded_size - info.payload_size)

\* C13: every BlockInfo of a successfully constructed BlockEncoder has
\* padded_size >= payload_size, padded_size a multiple of packet_size,
\* padded_size - payload_size < packet_size, payload_size the length of the
\* chunk given at construction, and zero bytes as padding.
C13_BlockInfoPadding ==
    /\ BlockEncoderReady =>
          /\ PaddingRight(benc.res.val, benc.len)
          /\ Truncate(benc.res.val.data, benc.len) = PayloadBytes(benc.len)
    /\ EncoderReady =>
          \A i \in DOMAIN enc.res.val.block_encoders :
              PaddingRight(enc.res.val.block_encoders[i],
                           enc.res.val.block_encoders[i].payload_size)

\* a chunk of more than one packet that needed padding, and one that needed none
C13_Witness ==
    /\ BlockEncoderReady
    /\ benc.len > benc.packet_size
    /\ benc.len % benc.packet_size # 0
    /\ GetBlockInfo(benc.res.val).padded_size = 2 * benc.packet_size
    /\ EncoderReady
    /\ \E i \in DOMAIN enc.res.val.block_encoders :
          LET info == GetBlockInfo(enc.res.val.block_encoders[i])
          IN info.payload_size > 0 /\ info.padded_size = info.payload_size

\* sum of the payload_size values of a block info vector
RECURSIVE PayloadSizeSum(_)
PayloadSizeSum(infos) ==
    IF infos = <<>> THEN 0 ELSE Head(infos).payload_size + PayloadSizeSum(Tail(infos))

\* C15: RaptorQEncoder::new splits the payload in order into chunks of at most
\* MAX_SYMBOLS_IN_BLOCK * packet_size bytes, every chunk but the last of exactly
\* that size and none empty, and gives chunk i block_id i; get_block_info_vec()
\* returns one BlockInfo per chunk, in ascending block_id order 0..n-1, whose
\* payload_size values sum to the payload length.
C15_ChunksInOrder ==
    EncoderReady =>
        LET block_size == MAX_SYMBOLS_IN_BLOCK * enc.packet_size
            blocks == enc.res.val.block_encoders
            infos == GetBlockInfoVec(enc.res.val)
            n == Len(infos)
        IN /\ Len(blocks) = n
           /\ n = (payload_len + block_size - 1) \div block_size
           /\ \A i \in 1..n :
                 /\ infos[i].block_id = i - 1
                 /\ blocks[i].block_id = i - 1
                 /\ infos[i].payload_size > 0
                 /\ infos[i].payload_size <= block_size
                 /\ i < n => infos[i].payload_size = block_size
                 /\ Truncate(blocks[i].data, infos[i].payload_size)
                       = <<Run("payload", (i - 1) * block_size, infos[i].payload_size)>>
           /\ PayloadSizeSum(infos) = payload_len

\* a payload of exactly two full chunks
C15_Witness ==
    /\ EncoderReady
    /\ LET infos == GetBlockInfoVec(enc.res.val)
       IN /\ Len(infos) = 2
          /\ infos[2].block_id = 1
          /\ infos[2].payload_size = MAX_SYMBOLS_IN_BLOCK * enc.packet_size

\* the packets of every block form one run
Contiguous(blocks) ==
    \A i, j, k \in DOMAIN blocks :
        (i < j /\ j < k /\ blocks[i].block_id = blocks[k].block_id)
            => blocks[j].block_id = blocks[i].block_id

\* the packets are those of the blocks of the encoder: as many packets tagged i
\* as block i has symbols, and no others
UnionOfBlocks(blocks, self) ==
    /\ \A i \in DOMAIN self.block_encoders :
          Len(OfBlock(blocks, i - 1)) = Symbols(self.block_encoders[i])
    /\ \A j \in DOMAIN blocks : blocks[j].block_id < Len(self.block_encoders)

\* packets of different blocks can alternate: two blocks or more, one of them
\* of two packets or more
CanInterleave(self) ==
    /\ Len(self.block_encoders) >= 2
    /\ \E i \in DOMAIN self.block_encoders : Symbols(self.block_encoders[i]) >= 2

\* C16 as stated: generate_encoded_blocks returns the packets of all blocks,
\* none lost and none added, with the packets of different blocks interleaved
\* rather than one contiguous run per block.
C16_PacketsInterleaved ==
    (EncoderReady /\ gens > 0) =>
        /\ UnionOfBlocks(wire, enc.res.val)
        /\ CanInterleave(enc.res.val) => ~Contiguous(wire)

\* C16 as amended: generate_encoded_blocks returns the packets of all blocks,
\* none lost and none added, as one contiguous run per block; the shuffle
\* decides the order of the runs, and inside its run a block's packets are in
\* the order its BlockEncoder made them.
C16_BlocksShuffledWhole ==
    (EncoderReady /\ gens > 0) =>
        /\ UnionOfBlocks(wire, enc.res.val)
        /\ Contiguous(wire)
        /\ last_op.op = "generate" =>
              \A i \in DOMAIN enc.res.val.block_encoders :
                  OfBlock(wire, i - 1)
                      = BlockGenerateEncodedBlocks(enc.res.val.block_encoders[i],
                                                   last_op.starts[i])

\* two blocks of more than one packet each, the run of block 1 first
C16_Witness ==
    /\ EncoderReady
    /\ last_op.op = "generate"
    /\ Len(enc.res.val.block_encoders) = 2
    /\ \A i \in 1..2 : Symbols(enc.res.val.block_encoders[i]) >= 2
    /\ wire[1].block_id = 1
    /\ wire[Len(wire)].block_id = 0
    /\ Contiguous(wire)

\* the plan of the BlockEncoder is the plan of k symbols: generated for k, or
\* the plan the cache holds under k
PlanIsFor(self, k, encoding_plan_cache) ==
    \/ self.encoding_plan = GeneratePlan(k)
    \/ /\ encoding_plan_cache.present
       /\ k \in DOMAIN encoding_plan_cache.map
       /\ self.encoding_plan = encoding_plan_cache.map[k]

\* C17: the plan of every BlockEncoder that construction returns was generated
\* for, or cached under, the number of source symbols of its padded data,
\* padded_size / packet_size; that number is in 1..MAX_SYMBOLS_IN_BLOCK for the
\* blocks of RaptorQEncoder::new; and every key RaptorQEncoder::new inserts into
\* the cache is the symbol count of the block whose plan it stores there.
C17_PlanMatchesSymbols ==
    /\ [](BlockEncoderReady =>
             PlanIsFor(benc.res.val, Symbols(benc.res.val), cache))
    /\ [](EncoderReady =>
             \A i \in DOMAIN enc.res.val.block_encoders :
                 LET self == enc.res.val.block_encoders[i]
                 IN /\ Symbols(self) \in 1..MAX_SYMBOLS_IN_BLOCK
                    /\ PlanIsFor(self, Symbols(self), cache))
    /\ [][(enc.st = "none" /\ enc'.st = "called" /\ cache.present /\ IsOk(enc'.res)) =>
            \A k \in DOMAIN cache'.map \ DOMAIN cache.map :
                \E i \in DOMAIN enc'.res.val.block_encoders :
                    /\ Symbols(enc'.res.val.block_encoders[i]) = k
                    /\ cache'.map[k] = enc'.res.val.block_encoders[i].encoding_plan]_vars

\* C18: whatever was consumed, every packet in the buffer of block i has
\* block_id i, which is the block_id of the BlockDecoder of that buffer; so
\* RaptorQDecoder::decode_blocks never returns BadBlockId.
C18_BuffersHoldOwnBlock ==
    /\ DecoderReady =>
          \A i \in DOMAIN dec.res.val.block_decoder_data :
              LET d == dec.res.val.block_decoder_data[i]
              IN /\ d.decoder.block_info.block_id = i - 1
                 /\ \A j \in DOMAIN d.blocks : d.blocks[j].block_id = i - 1
    /\ last_op.op = "decode" => last_op.ret # Err(BadBlockId)

\* a decode_blocks call on a decoder of fewer blocks than the encoder, after
\* consume_blocks calls that kept packets of its block and dropped others
C18_Witness ==
    /\ EncoderReady
    /\ DecoderReady
    /\ last_op.op = "decode"
    /\ Len(dec.res.val.block_decoder_data) = 1
    /\ Len(enc.res.val.block_encoders) = 2
    /\ cursor = Len(wire)
    /\ Len(dec.res.val.block_decoder_data[1].blocks) > 0
    /\ Buffered(dec.res.val) < gens * Len(wire)

\* the plan files of a directory: the regular files with the extension
PlanFiles(directory) ==
    {name \in DOMAIN directory :
        directory[name].is_file /\ Extension(name) = Some(<<"json-zip">>)}

\* the directory without the entries that are no plan files
OnlyPlanFiles(directory) == [name \in PlanFiles(directory) |-> directory[name]]

\* the content is not the compressed object of a count and a plan
Corrupt(content) ==
    \/ DOMAIN content # {"zlib"}
    \/ DOMAIN content.zlib # {"source_symbol_count", "plan"}

\* C12: save_encoding_plans(dir, P) into a directory without files of the
\* recognized extension writes one file per count, named by the count, and a
\* following load_encoding_plans(dir) returns a map equal to P; what a load
\* returns is what it returns for the plan files alone, whatever else the
\* directory holds; and a load fails when a plan file is corrupt.
C12_SaveLoadRoundTrip ==
    fop.op = "load" =>
        /\ fop.pristine =>
              /\ fop.ret = Ok(fop.plans)
              /\ PlanFiles(dir) = {PlanFileName(k) : k \in DOMAIN fop.plans}
              /\ Cardinality(PlanFiles(dir)) = Cardinality(DOMAIN fop.plans)
        /\ fop.ret \in {LoadEncodingPlans(OnlyPlanFiles(dir), entries) :
                            entries \in Listings(PlanFiles(dir))}
        /\ (\E name \in PlanFiles(dir) : Corrupt(dir[name].content)) => IsErr(fop.ret)

\* two plans, one of them stored under a count it was not generated for, saved
\* next to two files that are no plan files and loaded back
C12_Witness ==
    /\ fop.op = "load"
    /\ fop.pristine
    /\ DOMAIN fop.plans = PlanCounts
    /\ fop.plans[1] = GeneratePlan(2)
    /\ Cardinality(DOMAIN dir) = 4
    /\ fop.ret = Ok(fop.plans)

\* the packets the requests yield, each request's packets added by add_packets
RECURSIVE Issued(_, _, _)
Issued(requests, data, block_id) ==
    IF requests = <<>> THEN <<>>
    ELSE AddPackets(<<>>, RepairPackets(data, Head(requests).start, Head(requests).count),
                    block_id)
         \o Issued(Tail(requests), data, block_id)

\* C14: for every start identifier and block of num_symbols symbols, one
\* generate_encoded_blocks() call makes at most two repair_packets requests, each
\* with start + count <= 2^24, that together cover exactly the identifiers
\* (start + i) mod 2^24 for 0 <= i < num_symbols; the call returns num_symbols
\* packets, all tagged with the block_id of the encoder.
C14_WrapAround ==
    \A c \in DOMAIN bstreams :
        LET self == benc.res.val
            num_symbols == Symbols(self)
            requests == RepairRequests(self.data, self.packet_size, bstarts[c])
            blocks == bstreams[c]
        IN /\ Len(requests) <= 2
           /\ \A r \in DOMAIN requests :
                 /\ requests[r].start \in 0..(RAPTORQ_ENCODING_SYMBOL_ID_MAX - 1)
                 /\ requests[r].start + requests[r].count <= RAPTORQ_ENCODING_SYMBOL_ID_MAX
           /\ blocks = Issued(requests, self.data, self.block_id)
           /\ {blocks[j].data.esi : j \in DOMAIN blocks}
                 = {(bstarts[c] + i) % RAPTORQ_ENCODING_SYMBOL_ID_MAX :
                        i \in 0..(num_symbols - 1)}
           /\ Len(blocks) = num_symbols
           /\ \A j \in DOMAIN blocks :
                 blocks[j].block_id = self.block_id /\ blocks[j].data.src = self.data

\* a block of three symbols and the last identifier as start: two requests,
\* of one packet and of two
C14_Witness ==
    /\ BlockEncoderReady
    /\ Symbols(benc.res.val) = 3
    /\ benc.block_id = 1
    /\ \E c \in DOMAIN bstreams :
          /\ bstarts[c] = RAPTORQ_ENCODING_SYMBOL_ID_MAX - 1
          /\ Len(RepairRequests(benc.res.val.data, benc.packet_size, bstarts[c])) = 2
          /\ {bstreams[c][j].data.esi : j \in 1..3} = {RAPTORQ_ENCODING_SYMBOL_ID_MAX - 1, 0, 1}

====
